---- MODULE Spec2Model ----
(***************************************************************************)
(* A model of deluge/ui/common.py: the TorrentInfo constructor and the two *)
(* path trees FileTree and FileTree2.                                      *)
(*                                                                         *)
(* Text is a sequence of one-character strings, bytes are a sequence of    *)
(* byte values (naturals).  A Python dict whose keys are looked up by name *)
(* is a TLA+ record; a dict whose insertion order matters (the children    *)
(* of a directory) is a sequence of [key, val] pairs.                      *)
(***************************************************************************)
EXTENDS Integers, Sequences, FiniteSets, TLC

VARIABLES
    cls,      \* class of the tree object: "none", "FileTree" or "FileTree2"
    paths,    \* the paths the tree object was constructed from
    tree,     \* self.tree
    op,       \* the last call made on the tree object
    cb,       \* the callback of the last walk
    raised,   \* the last call ended with an exception
    before,   \* self.tree as it was before the last call
    log,      \* the callback calls of the last walk, in order
    nwalks,   \* walk calls made so far by the caller
    ti,       \* the last TorrentInfo construction: its input and its outcome
    other     \* the TorrentInfo construction before it

treeVars == <<cls, paths, tree, op, cb, raised, before, log, nwalks>>
vars == <<cls, paths, tree, op, cb, raised, before, log, nwalks, ti, other>>

(***************************************************************************)
(* Bounds of the model.                                                    *)
(***************************************************************************)
MaxPaths == 2      \* paths handed to a tree constructor
MaxWalks == 2      \* walk calls made by the caller on one tree
MaxFiles == 2      \* file records of a multi-file torrent

(***************************************************************************)
(* Text helpers: str.split('/', 1), os.path.join, os.path.dirname (posix). *)
(***************************************************************************)
Slash == "/"

HasSlash(p) == \E i \in 1..Len(p) : p[i] = Slash

FirstSlash(p) == CHOOSE i \in 1..Len(p) : p[i] = Slash /\ \A j \in 1..(i - 1) : p[j] # Slash

LastSlash(p) == CHOOSE i \in 1..Len(p) : p[i] = Slash /\ \A j \in (i + 1)..Len(p) : p[j] # Slash

\* path.split('/', 1)[0] and [1]
SplitHead(p) == SubSeq(p, 1, FirstSlash(p) - 1)

SplitRest(p) == SubSeq(p, FirstSlash(p) + 1, Len(p))

\* posixpath.join(a, b)
os_path_join(a, b) ==
    IF Len(b) > 0 /\ b[1] = Slash THEN b
    ELSE IF a = <<>> \/ a[Len(a)] = Slash THEN a \o b
    ELSE a \o <<Slash>> \o b

RECURSIVE RStripSlash(_)
RStripSlash(p) ==
    IF p # <<>> /\ p[Len(p)] = Slash THEN RStripSlash(SubSeq(p, 1, Len(p) - 1)) ELSE p

\* posixpath.dirname(p)
os_path_dirname(p) ==
    IF ~HasSlash(p) THEN <<>>
    ELSE LET head == SubSeq(p, 1, LastSlash(p))
         IN  IF \A i \in 1..Len(head) : head[i] = Slash THEN head ELSE RStripSlash(head)

(***************************************************************************)
(* Python values of the compact tree (FileTree): a dict of children, a     *)
(* list, a tuple, or None.                                                 *)
(***************************************************************************)
None == [kind |-> "None", items |-> <<>>, elems |-> <<>>]

Dict(items) == [kind |-> "dict", items |-> items, elems |-> <<>>]

List(elems) == [kind |-> "list", items |-> <<>>, elems |-> elems]

Tuple(elems) == [kind |-> "tuple", items |-> <<>>, elems |-> elems]

\* the ordered children of a directory of either tree shape
Children(cl, node) == IF cl = "FileTree" THEN node.items ELSE node.contents

WithChildren(cl, node, items) ==
    IF cl = "FileTree" THEN [node EXCEPT !.items = items] ELSE [node EXCEPT !.contents = items]

\* isinstance(node, dict) for FileTree; a FileTree2 node that can be indexed
\* by 'contents'
IsDir(cl, node) ==
    IF cl = "FileTree" THEN node.kind = "dict" ELSE "contents" \in DOMAIN node

Keys(items) == [i \in 1..Len(items) |-> items[i].key]

HasKey(items, k) == \E i \in 1..Len(items) : items[i].key = k

IndexOf(items, k) == CHOOSE i \in 1..Len(items) : items[i].key = k

GetItem(items, k) == items[IndexOf(items, k)].val

\* a dict where a key that is set again moves to the front
SetItemFront(items, k, v) ==
    IF HasKey(items, k)
    THEN <<[key |-> k, val |-> v]>> \o SelectSeq(items, LAMBDA e : e.key # k)
    ELSE Append(items, [key |-> k, val |-> v])

\* d[k] = v on an insertion-ordered dict: an existing key keeps its place
SetItem(items, k, v) ==
    IF HasKey(items, k)
    THEN [items EXCEPT ![IndexOf(items, k)] = [key |-> k, val |-> v]]
    ELSE Append(items, [key |-> k, val |-> v])

\* the node reached from root by the directory names of ref
RECURSIVE NodeAt(_, _, _)
NodeAt(cl, root, ref) ==
    IF ref = <<>> THEN root
    ELSE NodeAt(cl, GetItem(Children(cl, root), Head(ref)), Tail(ref))

\* root after node-at-ref[k] = v
RECURSIVE SetAt(_, _, _, _, _)
SetAt(cl, root, ref, k, v) ==
    IF ref = <<>> THEN WithChildren(cl, root, SetItem(Children(cl, root), k, v))
    ELSE WithChildren(cl, root,
            SetItem(Children(cl, root), Head(ref),
                    SetAt(cl, GetItem(Children(cl, root), Head(ref)), Tail(ref), k, v)))

(***************************************************************************)
(* Python values of the typed tree (FileTree2): every node is a dict, a    *)
(* record here; its keys are the record's fields.                          *)
(***************************************************************************)
DirNode2 == [type |-> "dir", contents |-> <<>>]

FileNode2 == [type |-> "file"]

\* dict.update(other)
Update(d, e) == [k \in DOMAIN d \cup DOMAIN e |-> IF k \in DOMAIN e THEN e[k] ELSE d[k]]

\* bool(v) of a value a callback returns
Falsy(v) ==
    IF "kind" \in DOMAIN v
    THEN CASE v.kind = "None" -> TRUE
           [] v.kind = "dict" -> v.items = <<>>
           [] OTHER -> v.elems = <<>>
    ELSE DOMAIN v = {}

(***************************************************************************)
(* Callbacks handed to walk.  A callback is a record: its name and the     *)
(* variables it closes over.  Calling it yields the value it returns, the  *)
(* item as the callback left it (a callback may change the dict it is      *)
(* given in place) and whether it raised.                                  *)
(***************************************************************************)
Returned(ret, item) == [ret |-> ret, item |-> item, err |-> FALSE]

CallbackRaised(item) == [ret |-> None, item |-> item, err |-> TRUE]

\* to_tuple of FileTree.get_tree
to_tuple(path, item) ==
    IF item.kind = "dict" THEN Returned(item, item) ELSE Returned(Tuple(item.elems), item)

\* the filetree == 1 walk callback of TorrentInfo.__init__
walk1(c, path, item) ==
    IF item.kind = "dict" THEN Returned(item, item)
    ELSE IF ~HasKey(c.paths, path) THEN CallbackRaised(item)
    ELSE LET found == GetItem(c.paths, path)
         IN  Returned(List(<<found.b_index, found.b_length, TRUE>>), item)

\* the filetree == 2 walk callback of TorrentInfo.__init__: returns None
walk2(c, path, item) ==
    IF item.type = "dir"
    THEN IF ~HasKey(c.dirs, path) THEN CallbackRaised(item)
         ELSE Returned(None, Update(Update(item, GetItem(c.dirs, path)), [download |-> TRUE]))
    ELSE IF ~HasKey(c.paths, path) THEN CallbackRaised(item)
         ELSE Returned(None, Update(Update(item, GetItem(c.paths, path)), [download |-> TRUE]))

\* write of __str__: appends a line and returns None
write(path, item) == Returned(None, item)

\* callbacks a caller of walk may pass
identity(path, item) == Returned(item, item)

FileToDir(cl, path, item) ==
    IF IsDir(cl, item) THEN Returned(None, item)
    ELSE IF cl = "FileTree"
         THEN Returned(Dict(<<[key |-> <<"x">>, val |-> List(<<>>)]>>), item)
         ELSE Returned([type |-> "dir",
                        contents |-> <<[key |-> <<"x">>, val |-> FileNode2]>>], item)

DirToFile(cl, path, item) ==
    IF ~IsDir(cl, item) THEN Returned(None, item)
    ELSE IF cl = "FileTree" THEN Returned(Tuple(<<0, 0, TRUE>>), item)
         ELSE Returned(FileNode2, item)

Stamp(cl, path, item) ==
    IF cl = "FileTree"
    THEN IF item.kind = "dict" THEN Returned(item, item)
         ELSE Returned(List(<<0, Len(path), TRUE>>), item)
    ELSE Returned(None, Update(item, [download |-> TRUE]))

Call(cl, c, path, item) ==
    CASE c.name = "to_tuple" -> to_tuple(path, item)
      [] c.name = "walk1" -> walk1(c, path, item)
      [] c.name = "walk2" -> walk2(c, path, item)
      [] c.name = "write" -> write(path, item)
      [] c.name = "identity" -> identity(path, item)
      [] c.name = "file_to_dir" -> FileToDir(cl, path, item)
      [] c.name = "dir_to_file" -> DirToFile(cl, path, item)
      [] c.name = "stamp" -> Stamp(cl, path, item)

(***************************************************************************)
(* FileTree: the compact tree.                                             *)
(***************************************************************************)
Built(t) == [err |-> FALSE, tree |-> t]

Failed(t) == [err |-> TRUE, tree |-> t]

\* get_parent of FileTree.__init__: the tree with the missing directories
\* created, the place of the parent (ref) and the last segment (path)
RECURSIVE FileTree_get_parent(_, _, _)
FileTree_get_parent(t, ref, path) ==
    IF ~HasSlash(path) THEN [err |-> FALSE, tree |-> t, parent |-> ref, path |-> path]
    ELSE LET segment == SplitHead(path)
             parent == NodeAt("FileTree", t, ref)
         IN  IF parent.kind # "dict"     \* a list has no get(): AttributeError
             THEN [err |-> TRUE, tree |-> t, parent |-> ref, path |-> path]
             ELSE FileTree_get_parent(
                      IF HasKey(parent.items, segment) THEN t
                      ELSE SetAt("FileTree", t, ref, segment, Dict(<<>>)),
                      Append(ref, segment), SplitRest(path))

\* one round of the for loop of FileTree.__init__
FileTree_add(t, path) ==
    LET isdir == path[Len(path)] = Slash
        g == FileTree_get_parent(t, <<>>, IF isdir THEN SubSeq(path, 1, Len(path) - 1) ELSE path)
    IN  IF path = <<>> THEN Failed(t)    \* path[-1] of an empty string: IndexError
        ELSE IF g.err THEN Failed(g.tree)
        ELSE IF NodeAt("FileTree", g.tree, g.parent).kind # "dict"
             THEN Failed(g.tree)         \* list[str] = ...: TypeError
        ELSE Built(SetAt("FileTree", g.tree, g.parent, g.path,
                         IF isdir THEN Dict(<<>>) ELSE List(<<>>)))

RECURSIVE FileTree_init_from(_, _)
FileTree_init_from(t, ps) ==
    IF ps = <<>> THEN Built(t)
    ELSE LET res == FileTree_add(t, Head(ps))
         IN  IF res.err THEN res ELSE FileTree_init_from(res.tree, Tail(ps))

FileTree_init(ps) == FileTree_init_from(Dict(<<>>), ps)

\* walk(directory, parent_path) of FileTree.walk over the names still to
\* visit: the directory afterwards, the callback calls made, whether it raised
RECURSIVE FileTree_walk_dir(_, _, _, _)
FileTree_walk_dir(callback, directory, parent_path, todo) ==
    IF todo = <<>> THEN [node |-> directory, log |-> <<>>, err |-> FALSE]
    ELSE LET childname == Head(todo)
             full_path == os_path_join(parent_path, childname)
             child == GetItem(directory.items, childname)
             called == Call("FileTree", callback, full_path, child)
             stored == IF Falsy(called.ret) THEN called.item ELSE called.ret
             descend == child.kind = "dict"
             entry == [path |-> full_path, isdir |-> stored.kind = "dict", descended |-> descend]
             sub == IF ~descend THEN [node |-> stored, log |-> <<>>, err |-> FALSE]
                    ELSE IF stored.kind # "dict"
                         THEN [node |-> stored, log |-> <<>>, err |-> TRUE]
                    ELSE FileTree_walk_dir(callback, stored, full_path, Keys(stored.items))
             after == [directory EXCEPT !.items = SetItem(directory.items, childname, sub.node)]
         IN  IF called.err THEN [node |-> directory, log |-> <<>>, err |-> TRUE]
             ELSE IF sub.err THEN [node |-> after, log |-> <<entry>> \o sub.log, err |-> TRUE]
             ELSE LET rest == FileTree_walk_dir(callback, after, parent_path, Tail(todo))
                  IN  [node |-> rest.node, log |-> <<entry>> \o sub.log \o rest.log,
                       err |-> rest.err]

FileTree_walk(callback, t) == FileTree_walk_dir(callback, t, <<>>, Keys(t.items))

FileTree_get_tree(t) == FileTree_walk([name |-> "to_tuple"], t)

(***************************************************************************)
(* FileTree2: the typed tree.                                              *)
(***************************************************************************)
RECURSIVE FileTree2_get_parent(_, _, _)
FileTree2_get_parent(t, ref, path) ==
    IF ~HasSlash(path) THEN [err |-> FALSE, tree |-> t, parent |-> ref, path |-> path]
    ELSE LET segment == SplitHead(path)
             parent == NodeAt("FileTree2", t, ref)
         IN  IF "contents" \notin DOMAIN parent     \* parent['contents']: KeyError
             THEN [err |-> TRUE, tree |-> t, parent |-> ref, path |-> path]
             ELSE FileTree2_get_parent(
                      IF HasKey(parent.contents, segment) THEN t
                      ELSE SetAt("FileTree2", t, ref, segment, DirNode2),
                      Append(ref, segment), SplitRest(path))

\* one round of the for loop of FileTree2.__init__
FileTree2_add(t, path) ==
    LET isdir == path[Len(path)] = Slash
        g == FileTree2_get_parent(t, <<>>, IF isdir THEN SubSeq(path, 1, Len(path) - 1) ELSE path)
    IN  IF path = <<>> THEN Failed(t)    \* path[-1] of an empty string: IndexError
        ELSE IF g.err THEN Failed(g.tree)
        ELSE IF "contents" \notin DOMAIN NodeAt("FileTree2", g.tree, g.parent)
             THEN Failed(g.tree)         \* parent['contents']: KeyError
        ELSE Built(SetAt("FileTree2", g.tree, g.parent, g.path,
                         IF isdir THEN DirNode2 ELSE FileNode2))

RECURSIVE FileTree2_init_from(_, _)
FileTree2_init_from(t, ps) ==
    IF ps = <<>> THEN Built(t)
    ELSE LET res == FileTree2_add(t, Head(ps))
         IN  IF res.err THEN res ELSE FileTree2_init_from(res.tree, Tail(ps))

FileTree2_init(ps) == FileTree2_init_from([contents |-> <<>>, type |-> "dir"], ps)

\* walk(directory, parent_path) of FileTree2.walk
RECURSIVE FileTree2_walk_dir(_, _, _, _)
FileTree2_walk_dir(callback, directory, parent_path, todo) ==
    IF todo = <<>> THEN [node |-> directory, log |-> <<>>, err |-> FALSE]
    ELSE LET childname == Head(todo)
             full_path == os_path_join(parent_path, childname)
             child == GetItem(directory.contents, childname)
             called == Call("FileTree2", callback, full_path, child)
             stored == IF Falsy(called.ret) THEN called.item ELSE called.ret
             descend == child.type = "dir"
             entry == [path |-> full_path, isdir |-> IsDir("FileTree2", stored),
                       descended |-> descend]
             sub == IF ~descend THEN [node |-> stored, log |-> <<>>, err |-> FALSE]
                    ELSE IF "contents" \notin DOMAIN stored
                         THEN [node |-> stored, log |-> <<>>, err |-> TRUE]
                    ELSE FileTree2_walk_dir(callback, stored, full_path, Keys(stored.contents))
             after == [directory EXCEPT !.contents = SetItem(directory.contents, childname, sub.node)]
         IN  IF called.err THEN [node |-> directory, log |-> <<>>, err |-> TRUE]
             ELSE IF sub.err THEN [node |-> after, log |-> <<entry>> \o sub.log, err |-> TRUE]
             ELSE LET rest == FileTree2_walk_dir(callback, after, parent_path, Tail(todo))
                  IN  [node |-> rest.node, log |-> <<entry>> \o sub.log \o rest.log,
                       err |-> rest.err]

FileTree2_walk(callback, t) == FileTree2_walk_dir(callback, t, <<>>, Keys(t.contents))

FileTree2_get_tree(t) == [node |-> t, log |-> <<>>, err |-> FALSE]

(***************************************************************************)
(* Byte strings the constructor looks up or compares with.                 *)
(***************************************************************************)
b_info == <<105, 110, 102, 111>>

b_name == <<110, 97, 109, 101>>

b_name_utf8 == <<110, 97, 109, 101, 46, 117, 116, 102, 45, 56>>

b_files == <<102, 105, 108, 101, 115>>

b_length == <<108, 101, 110, 103, 116, 104>>

b_path == <<112, 97, 116, 104>>

b_path_utf8 == <<112, 97, 116, 104, 46, 117, 116, 102, 45, 56>>

b_encoding == <<101, 110, 99, 111, 100, 105, 110, 103>>

b_codepage == <<99, 111, 100, 101, 112, 97, 103, 101>>

b_announce == <<97, 110, 110, 111, 117, 110, 99, 101>>

b_comment == <<99, 111, 109, 109, 101, 110, 116>>

b_UTF8 == <<85, 84, 70, 45, 56>>

b_latin1 == <<108, 97, 116, 105, 110, 49>>

(***************************************************************************)
(* deluge.bencode: the decoded value model, bencode and bdecode.           *)
(***************************************************************************)
BStr(s) == [t |-> "bytes", v |-> s]

BInt(n) == [t |-> "int", v |-> n]

BList(items) == [t |-> "list", v |-> items]

\* a dict is a function from its keys (byte strings) to values
BDict(f) == [t |-> "dict", v |-> f]

Min(a, b) == IF a < b THEN a ELSE b

BytesLess(a, b) ==
    \/ Len(a) < Len(b) /\ SubSeq(b, 1, Len(a)) = a
    \/ \E i \in 1..Min(Len(a), Len(b)) :
          /\ a[i] < b[i]
          /\ \A j \in 1..(i - 1) : a[j] = b[j]

RECURSIVE SortKeys(_)
SortKeys(S) ==
    IF S = {} THEN <<>>
    ELSE LET m == CHOOSE k \in S : \A o \in S \ {k} : BytesLess(k, o)
         IN  <<m>> \o SortKeys(S \ {m})

RECURSIVE Digits(_)
Digits(n) == IF n < 10 THEN <<48 + n>> ELSE Digits(n \div 10) \o <<48 + (n % 10)>>

RECURSIVE bencode(_)
RECURSIVE encode_list(_)
RECURSIVE encode_dict(_, _)
bencode(x) ==
    CASE x.t = "int" -> <<105>> \o Digits(x.v) \o <<101>>
      [] x.t = "bytes" -> Digits(Len(x.v)) \o <<58>> \o x.v
      [] x.t = "list" -> <<108>> \o encode_list(x.v) \o <<101>>
      [] x.t = "dict" -> <<100>> \o encode_dict(x.v, SortKeys(DOMAIN x.v)) \o <<101>>

encode_list(items) ==
    IF items = <<>> THEN <<>> ELSE bencode(Head(items)) \o encode_list(Tail(items))

encode_dict(f, keys) ==
    IF keys = <<>> THEN <<>>
    ELSE bencode(BStr(Head(keys))) \o bencode(f[Head(keys)]) \o encode_dict(f, Tail(keys))

\* x.index(c, f): the first position >= f holding c, 0 when there is none
Index(x, c, f) ==
    IF \E i \in f..Len(x) : x[i] = c
    THEN CHOOSE i \in f..Len(x) : x[i] = c /\ \A j \in f..(i - 1) : x[j] # c
    ELSE 0

IsNumber(x, f, e) == f < e /\ \A i \in f..(e - 1) : x[i] \in 48..57

RECURSIVE Number(_, _, _)
Number(x, f, e) == IF f >= e THEN 0 ELSE Number(x, f, e - 1) * 10 + (x[e - 1] - 48)

Decoded(v, next) == [ok |-> TRUE, val |-> v, next |-> next]

BTFailure == [ok |-> FALSE, val |-> BInt(0), next |-> 0]

decode_int(x, f) ==
    LET end == Index(x, 101, f + 1)
    IN  IF end = 0 \/ ~IsNumber(x, f + 1, end) THEN BTFailure
        ELSE Decoded(BInt(Number(x, f + 1, end)), end + 1)

decode_string(x, f) ==
    LET colon == Index(x, 58, f)
    IN  IF colon = 0 \/ ~IsNumber(x, f, colon) THEN BTFailure
        ELSE LET count == Number(x, f, colon)
             IN  Decoded(BStr(SubSeq(x, colon + 1, Min(colon + count, Len(x)))), colon + 1 + count)

RECURSIVE decode_value(_, _)
RECURSIVE decode_list(_, _, _)
RECURSIVE decode_dict(_, _, _)
RECURSIVE list_item(_, _, _)
RECURSIVE dict_key(_, _, _)
RECURSIVE dict_item(_, _, _, _)
decode_value(x, f) ==
    IF f > Len(x) THEN BTFailure
    ELSE CASE x[f] = 105 -> decode_int(x, f)
           [] x[f] = 108 -> decode_list(x, f + 1, <<>>)
           [] x[f] = 100 -> decode_dict(x, f + 1, <<>>)
           [] x[f] \in 48..57 -> decode_string(x, f)
           [] OTHER -> BTFailure

\* the loop of decode_list: r holds the items decoded so far
decode_list(x, f, r) ==
    IF f <= Len(x) /\ x[f] = 101 THEN Decoded(BList(r), f + 1)
    ELSE list_item(x, r, decode_value(x, f))

list_item(x, r, item) ==
    IF ~item.ok THEN BTFailure ELSE decode_list(x, item.next, Append(r, item.val))

\* the loop of decode_dict: r holds the key-value pairs decoded so far, a
\* later pair of the same key taking the place of an earlier one
decode_dict(x, f, r) ==
    IF f <= Len(x) /\ x[f] = 101
    THEN Decoded(BDict([k \in {r[i][1] : i \in 1..Len(r)} |->
                          r[CHOOSE i \in 1..Len(r) :
                               r[i][1] = k /\ \A j \in (i + 1)..Len(r) : r[j][1] # k][2]]),
                 f + 1)
    ELSE IF f > Len(x) \/ x[f] \notin 48..57 THEN BTFailure
    ELSE dict_key(x, r, decode_string(x, f))

dict_key(x, r, dkey) ==
    IF ~dkey.ok THEN BTFailure ELSE dict_item(x, r, dkey.val.v, decode_value(x, dkey.next))

dict_item(x, r, dkey, item) ==
    IF ~item.ok THEN BTFailure ELSE decode_dict(x, item.next, Append(r, <<dkey, item.val>>))

bdecode(x) == decode_value(x, 1)

(***************************************************************************)
(* hashlib.sha1(...).hexdigest(): the digest as hexadecimal text.  The     *)
(* digest is taken free of collisions: it determines the bytes it is of.   *)
(***************************************************************************)
HexDigit(n) ==
    <<"0", "1", "2", "3", "4", "5", "6", "7", "8", "9", "a", "b", "c", "d", "e", "f">>[n + 1]

sha_hexdigest(x) ==
    [i \in 1..(2 * Len(x)) |->
        IF i % 2 = 1 THEN HexDigit(x[(i + 1) \div 2] \div 16)
        ELSE HexDigit(x[i \div 2] % 16)]

(***************************************************************************)
(* deluge.common.decode_bytes and bytes.decode().  An encoding hint is     *)
(* either text (str) or still a byte string.                               *)
(***************************************************************************)
EncodingStr(text) == [str |-> TRUE, v |-> text]

EncodingBytes(b) == [str |-> FALSE, v |-> b]

utf8 == EncodingStr(<<"u", "t", "f", "8">>)

Chr(b) ==
    CASE b = 45 -> "-"
      [] b = 47 -> "/"
      [] b = 49 -> "1"
      [] b = 56 -> "8"
      [] b = 70 -> "F"
      [] b = 84 -> "T"
      [] b = 85 -> "U"
      [] b = 97 -> "a"
      [] b = 98 -> "b"
      [] b = 105 -> "i"
      [] b = 108 -> "l"
      [] b = 110 -> "n"
      [] b = 116 -> "t"
      [] OTHER -> "?"

\* the text of byte b under the hinted encoding: a byte above 127 is a
\* letter under latin1 and no valid UTF-8 on its own
DecodeByte(b, encoding) ==
    IF b < 128 THEN Chr(b)
    ELSE IF encoding.str /\ encoding.v = <<"l", "a", "t", "i", "n", "1">> THEN "E" ELSE "?"

decode_bytes(byte_str, encoding) ==
    [i \in 1..Len(byte_str) |-> DecodeByte(byte_str[i], encoding)]

\* bytes.decode(): strict UTF-8
bytes_decode(b) ==
    IF \E i \in 1..Len(b) : b[i] >= 128 THEN [err |-> TRUE, text |-> <<>>]
    ELSE [err |-> FALSE, text |-> [i \in 1..Len(b) |-> Chr(b[i])]]

(***************************************************************************)
(* TorrentInfo.__init__.                                                   *)
(*                                                                         *)
(* The input: filename, filetree, metainfo, metadata (an absent bytes      *)
(* argument is the empty byte string), and what reading filename gives:    *)
(* readable and content.                                                   *)
(***************************************************************************)
\* os.path.join over the separator sep (bytes or text)
PathJoin(a, b, sep) ==
    IF Len(b) > 0 /\ b[1] = sep THEN b
    ELSE IF a = <<>> \/ a[Len(a)] = sep THEN a \o b
    ELSE a \o <<sep>> \o b

\* os.path.join(*segs) of byte strings, segs not empty
RECURSIVE JoinFrom(_, _)
JoinFrom(path, segs) ==
    IF segs = <<>> THEN path ELSE JoinFrom(PathJoin(path, Head(segs), 47), Tail(segs))

os_path_join_all(segs) == JoinFrom(Head(segs), Tail(segs))

\* lines 183-202: the metainfo bytes and the decoded dict, or how it ended
Acquire(in) ==
    IF in.metadata # <<>>
    THEN LET dec == bdecode(in.metadata)
         IN  IF ~dec.ok THEN [step |-> "raise", self |-> [x \in {} |-> 0]]
             ELSE LET md == BDict(b_info :> dec.val)
                  IN  [step |-> "go", metainfo_dict |-> md, self |-> [filedata |-> bencode(md)]]
    ELSE LET read == in.filename # <<>> /\ in.metainfo = <<>>
         IN  IF read /\ ~in.readable THEN [step |-> "return", self |-> [filedata |-> in.metainfo]]
             ELSE LET m == IF read THEN in.content ELSE in.metainfo
                      dec == bdecode(m)
                  IN  IF ~dec.ok THEN [step |-> "return", self |-> [filedata |-> m]]
                      ELSE [step |-> "go", metainfo_dict |-> dec.val, self |-> [filedata |-> m]]

\* a hash over the whole metainfo instead
InfoHashOfMetainfo(metainfo_dict) == sha_hexdigest(bencode(metainfo_dict))

\* lines 204-205
InfoHash(metainfo_dict) == sha_hexdigest(bencode(metainfo_dict.v[b_info]))

\* lines 208-211
Encoding(metainfo_dict) ==
    LET has(k) == k \in DOMAIN metainfo_dict.v /\ metainfo_dict.v[k].v # <<>>
    IN  IF has(b_encoding) THEN metainfo_dict.v[b_encoding].v
        ELSE IF has(b_codepage) THEN metainfo_dict.v[b_codepage].v
        ELSE b_UTF8

\* lines 214-219: the name and the encoding as the branch leaves it
Name(info_dict, encoding) ==
    IF b_name_utf8 \in DOMAIN info_dict.v
    THEN [err |-> FALSE, name |-> decode_bytes(info_dict.v[b_name_utf8].v, utf8),
          encoding |-> EncodingBytes(encoding)]
    ELSE LET enc == bytes_decode(encoding)
         IN  IF enc.err \/ b_name \notin DOMAIN info_dict.v
             THEN [err |-> TRUE, name |-> <<>>, encoding |-> EncodingBytes(encoding)]
             ELSE [err |-> FALSE,
                   name |-> decode_bytes(info_dict.v[b_name].v, EncodingStr(enc.text)),
                   encoding |-> EncodingStr(enc.text)]

\* lines 228-235: the path of file record f as the record gives it
OwnPath(f, encoding) ==
    IF b_path_utf8 \in DOMAIN f.v
    THEN decode_bytes(os_path_join_all([i \in 1..Len(f.v[b_path_utf8].v) |->
                                           f.v[b_path_utf8].v[i].v]), utf8)
    ELSE decode_bytes(os_path_join_all([i \in 1..Len(f.v[b_path].v) |->
                                           f.v[b_path].v[i].v]), encoding)

\* line 225
Prefix(files, name) == IF Len(files) > 1 THEN name ELSE <<>>

\* lines 228-237: the resolved path of file record f
ResolvePath(f, prefix, encoding) ==
    IF prefix # <<>> THEN os_path_join(prefix, OwnPath(f, encoding)) ELSE OwnPath(f, encoding)

\* lines 246-250: the while loop over the ancestors of a path; it does not
\* end when dirname reaches a path that is its own dirname
RECURSIVE AddDirs(_, _, _)
AddDirs(dirs, dirname, length) ==
    IF dirname = <<>> THEN [diverged |-> FALSE, dirs |-> dirs]
    ELSE IF os_path_dirname(dirname) = dirname THEN [diverged |-> TRUE, dirs |-> dirs]
    ELSE LET old == IF HasKey(dirs, dirname) THEN GetItem(dirs, dirname).b_length ELSE 0
         IN  AddDirs(SetItem(dirs, dirname, [b_length |-> old + length]),
                     os_path_dirname(dirname), length)

\* lines 227-250: the for loop over the file records from position index on;
\* files holds the records as the loop leaves them
RECURSIVE EnumerateFiles(_, _, _, _, _)
EnumerateFiles(files, index, prefix, encoding, acc) ==
    IF index >= Len(files) THEN acc
    ELSE LET frec == files[index + 1]
             resolved == ResolvePath(frec, prefix, encoding)
             rec == [b_path |-> resolved, b_index |-> index, b_length |-> frec.v[b_length].v]
             added == AddDirs(acc.dirs, os_path_dirname(resolved), rec.b_length)
             now == [files |-> Append(acc.files, rec),
                     paths |-> SetItem(acc.paths, resolved, rec),
                     dirs |-> added.dirs, diverged |-> added.diverged]
         IN  IF added.diverged THEN now
             ELSE EnumerateFiles(files, index + 1, prefix, encoding, now)

\* lines 252-272: the tree of a multi-file torrent
MultiFileTree(filetree, e) ==
    IF filetree = 2
    THEN LET file_tree == FileTree2_init(Keys(e.paths))
             w == FileTree2_walk([name |-> "walk2", paths |-> e.paths, dirs |-> e.dirs],
                                 file_tree.tree)
         IN  IF file_tree.err THEN Failed(file_tree.tree)
             ELSE IF w.err THEN Failed(w.node)
             ELSE Built(FileTree2_get_tree(w.node).node)
    ELSE LET file_tree == FileTree_init(Keys(e.paths))
             w == FileTree_walk([name |-> "walk1", paths |-> e.paths], file_tree.tree)
             g == FileTree_get_tree(w.node)
         IN  IF file_tree.err THEN Failed(file_tree.tree)
             ELSE IF w.err THEN Failed(w.node)
             ELSE IF g.err THEN Failed(g.node)
             ELSE Built(g.node)

\* lines 274-286: the tree of a single-file torrent
SingleFileTree(filetree, name, length) ==
    IF filetree = 2
    THEN [contents |-> <<[key |-> name,
                          val |-> [type |-> "file", index |-> 0, length |-> length,
                                   download |-> TRUE]]>>]
    ELSE Dict(<<[key |-> name, val |-> Tuple(<<0, length, TRUE>>)]>>)

\* a flat file list in the opposite order
FlatFilesReversed(info_dict, files, name) ==
    IF b_files \in DOMAIN info_dict.v
    THEN [i \in 1..Len(files) |->
             [path |-> files[Len(files) + 1 - i].b_path,
              size |-> files[Len(files) + 1 - i].b_length, download |-> TRUE]]
    ELSE <<[path |-> name, size |-> info_dict.v[b_length].v, download |-> TRUE]>>

\* lines 288-301: the flat file list
FlatFiles(info_dict, files, name) ==
    IF b_files \in DOMAIN info_dict.v
    THEN [i \in 1..Len(files) |->
             [path |-> files[i].b_path, size |-> files[i].b_length, download |-> TRUE]]
    ELSE <<[path |-> name, size |-> info_dict.v[b_length].v, download |-> TRUE]>>

Outcome(in, status, self) == [status |-> status, input |-> in, self |-> self]

\* lines 272 and 288-301, after the for loop has left enum
AfterFiles(in, info_dict, name, self, enum, built) ==
    IF enum.diverged THEN Outcome(in, "diverged", self)
    ELSE IF built.err THEN Outcome(in, "raised", self)
    ELSE Outcome(in, "returned",
                 Update(self, [files_tree |-> built.tree,
                               files |-> FlatFiles(info_dict, enum.files, name)]))

\* lines 222-272: metadata_files is the file records of self.metadata as the
\* for loop leaves them (it changes them in place)
MultiFile(in, info_dict, name, self, enum) ==
    AfterFiles(in, info_dict, name, Update(self, [metadata_files |-> enum.files]), enum,
               MultiFileTree(in.filetree, enum))

\* lines 221-301
Files(in, info_dict, nm, self) ==
    IF b_files \in DOMAIN info_dict.v
    THEN MultiFile(in, info_dict, nm.name, self,
                   EnumerateFiles(info_dict.v[b_files].v, 0,
                                  Prefix(info_dict.v[b_files].v, nm.name),
                                  nm.encoding,
                                  [files |-> <<>>, paths |-> <<>>, dirs |-> <<>>,
                                   diverged |-> FALSE]))
    ELSE IF b_length \notin DOMAIN info_dict.v THEN Outcome(in, "raised", self)
    ELSE Outcome(in, "returned",
                 Update(self, [files_tree |-> SingleFileTree(in.filetree, nm.name,
                                                             info_dict.v[b_length].v),
                               files |-> FlatFiles(info_dict, <<>>, nm.name)]))

\* lines 213-219, nm what the branch has left
AfterName(in, info_dict, nm, self) ==
    IF nm.err THEN Outcome(in, "raised", self)
    ELSE Files(in, info_dict, nm, Update(self, [name |-> nm.name]))

\* lines 207-211
AfterHash(in, metainfo_dict, self) ==
    IF metainfo_dict.v[b_info].t # "dict" THEN Outcome(in, "raised", self)
    ELSE AfterName(in, metainfo_dict.v[b_info],
                   Name(metainfo_dict.v[b_info], Encoding(metainfo_dict)), self)

\* lines 204-205
AfterAcquire(in, acq) ==
    IF acq.step = "raise" THEN Outcome(in, "raised", acq.self)
    ELSE IF acq.step = "return" THEN Outcome(in, "returned", acq.self)
    ELSE IF acq.metainfo_dict.t # "dict" \/ b_info \notin DOMAIN acq.metainfo_dict.v
         THEN Outcome(in, "raised", acq.self)
    ELSE AfterHash(in, acq.metainfo_dict,
                   Update(acq.self, [info_hash |-> InfoHash(acq.metainfo_dict)]))

TorrentInfo_init(in) == AfterAcquire(in, Acquire(in))

(***************************************************************************)
(* A caller that builds one tree, walks it and asks for it.                *)
(***************************************************************************)
PathPool ==
    { <<"a">>, <<"b">>, <<"a", "/", "b">>, <<"a", "/">>,
      <<"a", "/", "b", "/">>, <<"a", "/", "b", "/", "a">> }

RECURSIVE SeqsUpTo(_, _)
SeqsUpTo(S, n) ==
    IF n = 0 THEN {<<>>}
    ELSE LET shorter == SeqsUpTo(S, n - 1)
         IN  shorter \cup {Append(q, x) : q \in shorter, x \in S}

CallerCallbacks == {"identity", "write", "stamp", "file_to_dir", "dir_to_file"}

NoTree == [kind |-> "None", items |-> <<>>, elems |-> <<>>]

NoTorrent == [status |-> "none"]

TreeInit ==
    /\ ti = NoTorrent
    /\ other = NoTorrent
    /\ cls = "none"
    /\ paths = <<>>
    /\ tree = NoTree
    /\ op = "none"
    /\ cb = "none"
    /\ raised = FALSE
    /\ before = NoTree
    /\ log = <<>>
    /\ nwalks = 0

\* FileTree(ps)
NewFileTree(ps) ==
    /\ cls = "none"
    /\ LET res == FileTree_init(ps)
       IN  /\ tree' = res.tree
           /\ raised' = res.err
    /\ cls' = "FileTree"
    /\ paths' = ps
    /\ op' = "init"
    /\ UNCHANGED <<cb, before, log, nwalks, ti, other>>

\* FileTree2(ps)
NewFileTree2(ps) ==
    /\ cls = "none"
    /\ LET res == FileTree2_init(ps)
       IN  /\ tree' = res.tree
           /\ raised' = res.err
    /\ cls' = "FileTree2"
    /\ paths' = ps
    /\ op' = "init"
    /\ UNCHANGED <<cb, before, log, nwalks, ti, other>>

\* tree.walk(c)
Walk(c) ==
    /\ cls # "none"
    /\ ~raised
    /\ nwalks < MaxWalks
    /\ LET res == IF cls = "FileTree" THEN FileTree_walk([name |-> c], tree)
                ELSE FileTree2_walk([name |-> c], tree)
       IN  /\ tree' = res.node
           /\ log' = res.log
           /\ raised' = res.err
    /\ before' = tree
    /\ op' = "walk"
    /\ cb' = c
    /\ nwalks' = nwalks + 1
    /\ UNCHANGED <<cls, paths, ti, other>>

\* tree.get_tree()
GetTree ==
    /\ cls # "none"
    /\ ~raised
    /\ LET res == IF cls = "FileTree" THEN FileTree_get_tree(tree) ELSE FileTree2_get_tree(tree)
       IN  /\ tree' = res.node
           /\ log' = res.log
           /\ raised' = res.err
    /\ before' = tree
    /\ op' = "get_tree"
    /\ cb' = "none"
    /\ UNCHANGED <<cls, paths, nwalks, ti, other>>

TreeNext ==
    \/ \E ps \in SeqsUpTo(PathPool, MaxPaths) : NewFileTree(ps)
    \/ \E ps \in SeqsUpTo(PathPool, MaxPaths) : NewFileTree2(ps)
    \/ \E c \in CallerCallbacks : Walk(c)
    \/ GetTree

SpecTree == TreeInit /\ [][TreeNext]_vars

(***************************************************************************)
(* Callers that construct a TorrentInfo.  A torrent is described by its    *)
(* name, its single length or its file records, and its other top-level    *)
(* fields; the bytes handed to the constructor are its bencoding.          *)
(***************************************************************************)
NoFields == [k \in {} |-> BInt(0)]

FileValue(r) ==
    BDict((b_path :> BList([i \in 1..Len(r.path) |-> BStr(r.path[i])]))
          @@ (b_length :> BInt(r.length))
          @@ (IF r.utf8 = <<>> THEN NoFields
              ELSE b_path_utf8 :> BList([i \in 1..Len(r.utf8) |-> BStr(r.utf8[i])])))

InfoValue(d) ==
    BDict((b_name :> BStr(d.name))
          @@ (IF d.kind = "single" THEN b_length :> BInt(d.length)
              ELSE b_files :> BList([i \in 1..Len(d.files) |-> FileValue(d.files[i])])))

MetaValue(d, top) == BDict((b_info :> InfoValue(d)) @@ top)

Record(path, length) == [path |-> path, utf8 |-> <<>>, length |-> length]

RecordPool ==
    { Record(<<<<97>>>>, 1), Record(<<<<98>>>>, 2), Record(<<<<97>>, <<98>>>>, 1),
      Record(<<<<97>>, <<98>>>>, 2), Record(<<<<97>>, <<>>>>, 1),
      Record(<<<<47, 97>>>>, 1), Record(<<<<98>>>>, 0),
      [path |-> <<<<97>>>>, utf8 |-> <<<<98>>, <<97>>>>, length |-> 2] }

NamePool == { <<110>>, <<>>, <<110, 47>> }

Single(name, length) == [kind |-> "single", name |-> name, length |-> length, files |-> <<>>]

Multi(name, files) == [kind |-> "multi", name |-> name, length |-> 0, files |-> files]

TorrentPool ==
    {Single(n, 1) : n \in NamePool}
    \cup {Multi(n, fs) : n \in NamePool, fs \in SeqsUpTo(RecordPool, MaxFiles)}

\* TorrentInfo(metainfo=bytes, filetree=ft)
FromMetainfo(bytes, ft, d, wellformed) ==
    [filename |-> <<>>, filetree |-> ft, metainfo |-> bytes, metadata |-> <<>>,
     readable |-> FALSE, content |-> <<>>, mode |-> "metainfo", desc |-> d,
     wellformed |-> wellformed]

\* TorrentInfo(metadata=bytes, filetree=ft)
FromMetadata(bytes, ft, d, wellformed) ==
    [filename |-> <<>>, filetree |-> ft, metainfo |-> <<>>, metadata |-> bytes,
     readable |-> FALSE, content |-> <<>>, mode |-> "metadata", desc |-> d,
     wellformed |-> wellformed]

\* TorrentInfo(filename, filetree=ft), the file holding bytes or unreadable
FromFile(readable, bytes, ft, d, wellformed) ==
    [filename |-> <<"t">>, filetree |-> ft, metainfo |-> <<>>, metadata |-> <<>>,
     readable |-> readable, content |-> bytes, mode |-> "filename", desc |-> d,
     wellformed |-> wellformed]

Truncated(bytes) == SubSeq(bytes, 1, Len(bytes) - 1)

ModeTorrents ==
    { Single(<<110>>, 1),
      Multi(<<110>>, <<Record(<<<<97>>>>, 1), Record(<<<<97>>, <<98>>>>, 2)>>) }

TorrentInputs ==
    {FromMetainfo(bencode(MetaValue(d, NoFields)), ft, d, TRUE) :
        d \in TorrentPool, ft \in {1, 2}}
    \cup {FromMetadata(bencode(InfoValue(d)), ft, d, TRUE) : d \in ModeTorrents, ft \in {1, 2}}
    \cup {FromFile(TRUE, bencode(MetaValue(d, NoFields)), ft, d, TRUE) :
             d \in ModeTorrents, ft \in {1, 2}}
    \cup {FromMetainfo(Truncated(bencode(MetaValue(d, NoFields))), 1, d, FALSE) :
             d \in ModeTorrents}
    \cup {FromMetadata(Truncated(bencode(InfoValue(d))), 1, d, FALSE) : d \in ModeTorrents}
    \cup {FromFile(TRUE, Truncated(bencode(MetaValue(d, NoFields))), 1, d, FALSE) :
             d \in ModeTorrents}
    \cup {FromFile(FALSE, <<>>, 1, d, TRUE) : d \in ModeTorrents}
    \cup {FromMetainfo(<<120>>, 1, Single(<<110>>, 1), FALSE),
          FromMetadata(<<120>>, 1, Single(<<110>>, 1), FALSE),
          FromFile(TRUE, <<120>>, 1, Single(<<110>>, 1), FALSE)}

TorrentInit ==
    /\ ti = NoTorrent
    /\ other = NoTorrent
    /\ cls = "none"
    /\ paths = <<>>
    /\ tree = NoTree
    /\ op = "none"
    /\ cb = "none"
    /\ raised = FALSE
    /\ before = NoTree
    /\ log = <<>>
    /\ nwalks = 0

\* TorrentInfo(...): the construction runs to its end
Construct(in) ==
    /\ ti.status = "none"
    /\ ti' = TorrentInfo_init(in)
    /\ UNCHANGED <<other, treeVars>>

TorrentNext == \E in \in TorrentInputs : Construct(in)

SpecTorrent == TorrentInit /\ [][TorrentNext]_vars

(***************************************************************************)
(* Callers that construct two TorrentInfo objects, to compare their        *)
(* hashes: torrents under each set of other top-level fields, in each      *)
(* construction mode.                                                      *)
(***************************************************************************)
HashTorrents ==
    { Single(<<110>>, 1), Single(<<110>>, 2), Multi(<<110>>, <<Record(<<<<97>>>>, 1)>>) }

TopFields ==
    { NoFields, b_announce :> BStr(<<97>>), b_encoding :> BStr(b_latin1),
      b_codepage :> BStr(b_latin1), b_comment :> BStr(<<98>>) }

HashInputs ==
    {FromMetainfo(bencode(MetaValue(d, top)), 1, d, TRUE) : d \in HashTorrents, top \in TopFields}
    \cup {FromFile(TRUE, bencode(MetaValue(d, top)), 1, d, TRUE) :
             d \in HashTorrents, top \in TopFields}
    \cup {FromMetadata(bencode(InfoValue(d)), 1, d, TRUE) : d \in HashTorrents}

\* a second TorrentInfo(...), the first one kept
ConstructAgain(in) ==
    /\ ti.status # "none"
    /\ other.status = "none"
    /\ other' = ti
    /\ ti' = TorrentInfo_init(in)
    /\ UNCHANGED treeVars

HashNext ==
    \/ \E in \in HashInputs : Construct(in)
    \/ \E in \in HashInputs : ConstructAgain(in)

SpecHash == TorrentInit /\ [][HashNext]_vars

(***************************************************************************)
(* Properties of a constructed TorrentInfo.                                *)
(***************************************************************************)
\* the construction returned an object with its files and its tree
Populated(o) ==
    /\ o.status = "returned"
    /\ {"name", "info_hash", "files", "files_tree"} \subseteq DOMAIN o.self

MultiFileTorrent(o) == Populated(o) /\ "metadata_files" \in DOMAIN o.self

\* the sum of the lengths of the file leaves beneath a node of the typed tree
RECURSIVE FileLengthBeneath(_)
RECURSIVE FileLengthIn(_)
FileLengthBeneath(node) ==
    IF "contents" \in DOMAIN node THEN FileLengthIn(node.contents) ELSE node.b_length

FileLengthIn(items) ==
    IF items = <<>> THEN 0 ELSE FileLengthBeneath(Head(items).val) + FileLengthIn(Tail(items))

\* every directory among items and beneath them carries the sum of its leaves
RECURSIVE AggregateHoldsIn(_)
AggregateHoldsIn(items) ==
    \A i \in 1..Len(items) :
        "contents" \in DOMAIN items[i].val =>
            /\ "b_length" \in DOMAIN items[i].val
            /\ items[i].val.b_length = FileLengthIn(items[i].val.contents)
            /\ AggregateHoldsIn(items[i].val.contents)

\* C1: in the typed tree of a multi-file torrent constructed with
\* filetree=2, every directory carries a length equal to the sum of the
\* lengths of the file leaves beneath it
C1_AggregateLaw ==
    (MultiFileTorrent(ti) /\ ti.input.filetree = 2)
        => AggregateHoldsIn(ti.self.files_tree.contents)

\* a typed tree of two records where the law holds
C1_LawHolds ==
    /\ MultiFileTorrent(ti) /\ ti.input.filetree = 2
    /\ Len(ti.self.files) = 2
    /\ AggregateHoldsIn(ti.self.files_tree.contents)

\* every node is of type "dir" or "file", a "dir" with its contents
RECURSIVE TypedShape(_)
TypedShape(node) ==
    /\ "type" \in DOMAIN node
    /\ node.type \in {"dir", "file"}
    /\ node.type = "dir" =>
          /\ "contents" \in DOMAIN node
          /\ \A i \in 1..Len(node.contents) : TypedShape(node.contents[i].val)

\* C8: every node of a typed tree returned with filetree=2, the root
\* included, has a type "dir" or "file", and every "dir" has its contents
C8_TypedShape ==
    (Populated(ti) /\ ti.input.filetree = 2) => TypedShape(ti.self.files_tree)

C8_MultiFileShape ==
    /\ MultiFileTorrent(ti) /\ ti.input.filetree = 2
    /\ TypedShape(ti.self.files_tree)

\* the source cannot be read, or its bytes are no bencoding
BadSource(in) == ~in.wellformed \/ (in.mode = "filename" /\ ~in.readable)

\* C5: in each construction mode, an unreadable source or malformed bytes
\* end the construction without an exception, and with name, info_hash,
\* files and files_tree not set
C5_IncompleteResult ==
    (ti.status # "none" /\ BadSource(ti.input))
        => /\ ti.status = "returned"
           /\ DOMAIN ti.self \cap {"name", "info_hash", "files", "files_tree"} = {}

C5_MetainfoIncomplete ==
    /\ ti.status = "returned"
    /\ BadSource(ti.input)
    /\ ti.input.mode = "metainfo"
    /\ DOMAIN ti.self \cap {"name", "info_hash", "files", "files_tree"} = {}

\* the file records the torrent of o declares, and their paths as given
Declared(o) == o.input.desc.files

DeclaredPath(o, i) == OwnPath(FileValue(Declared(o)[i]), utf8)

EndsWith(p, q) == Len(q) <= Len(p) /\ SubSeq(p, Len(p) - Len(q) + 1, Len(p)) = q

\* C3: the record declared at position i (from 0) of a multi-file torrent
\* gets index i, and the flat file list has one entry per declared record,
\* the i-th with the resolved path and the length of the i-th record and
\* download = true
C3_IndexOrdering ==
    MultiFileTorrent(ti) =>
        /\ Len(ti.self.files) = Len(Declared(ti))
        /\ Len(ti.self.metadata_files) = Len(Declared(ti))
        /\ \A i \in 1..Len(Declared(ti)) :
              /\ ti.self.metadata_files[i].b_index = i - 1
              /\ EndsWith(ti.self.metadata_files[i].b_path, DeclaredPath(ti, i))
              /\ ti.self.files[i] = [path |-> ti.self.metadata_files[i].b_path,
                                     size |-> Declared(ti)[i].length,
                                     download |-> TRUE]

\* two records, the deeper path and the later name declared first
C3_DeeperFirst ==
    /\ MultiFileTorrent(ti)
    /\ Len(ti.self.files) = 2
    /\ ti.self.files[1].path = <<"n", "/", "a", "/", "b">>
    /\ ti.self.files[2].path = <<"n", "/", "a">>
    /\ ti.self.metadata_files[2].b_index = 1

\* C4: once the paths of a multi-file torrent are resolved, with more than
\* one entry every resolved path is the name, a separator and the entry's
\* own path, for every name; with one entry it is the entry's own path
C4_PrefixRule ==
    (ti.status # "none" /\ "metadata_files" \in DOMAIN ti.self) =>
        \A i \in 1..Len(ti.self.metadata_files) :
            ti.self.metadata_files[i].b_path =
                IF Len(Declared(ti)) > 1
                THEN ti.self.name \o <<Slash>> \o DeclaredPath(ti, i)
                ELSE DeclaredPath(ti, i)

\* the rule at work: two entries under the name n
C4_Prefixed ==
    /\ MultiFileTorrent(ti)
    /\ Len(Declared(ti)) = 2
    /\ ti.self.files[1].path = <<"n", "/", "a">>
    /\ ti.self.files[2].path = <<"n", "/", "b">>

\* an entry whose own path starts with a separator: the name is dropped and
\* the construction does not end
C4_AbsoluteEntry ==
    /\ ti.status = "diverged"
    /\ ti.self.name = <<"n">>
    /\ Len(Declared(ti)) = 2
    /\ ti.self.metadata_files[1].b_path = <<"/", "a">>

\* the info mapping of the source the construction was given
SourceInfo(in) ==
    IF in.mode = "metadata" THEN bdecode(in.metadata).val
    ELSE IF in.mode = "filename" THEN bdecode(in.content).val.v[b_info]
    ELSE bdecode(in.metainfo).val.v[b_info]

SourceBytes(in) ==
    IF in.mode = "metadata" THEN in.metadata
    ELSE IF in.mode = "filename" THEN in.content ELSE in.metainfo

\* C2: two constructions from sources with the same info mapping give the
\* same info_hash, whatever their other top-level fields and whichever the
\* construction modes
C2_HashInvariance ==
    (Populated(ti) /\ Populated(other) /\ SourceInfo(ti.input) = SourceInfo(other.input))
        => ti.self.info_hash = other.self.info_hash

\* a file with an encoding field and info-only metadata, of the same info
C2_FileAndMetadata ==
    /\ Populated(ti) /\ Populated(other)
    /\ ti.input.mode = "filename" /\ other.input.mode = "metadata"
    /\ SourceInfo(ti.input) = SourceInfo(other.input)
    /\ SourceBytes(ti.input) # bencode(MetaValue(ti.input.desc, NoFields))
    /\ ti.self.info_hash = other.self.info_hash

(***************************************************************************)
(* Properties of the trees.                                                *)
(***************************************************************************)
\* C6: in a walk, on either tree shape and for every callback, the walk
\* descends into a visited node exactly when the node stored after the
\* callback is a directory
C6_ReplaceThenRecurse ==
    op = "walk" => \A i \in 1..Len(log) : log[i].descended = log[i].isdir

\* a walk that kept a directory and a file as they were, and descended
\* into the directory only
C6_KeptNodes ==
    /\ op = "walk" /\ cb = "write" /\ ~raised
    /\ \E i \in 1..Len(log) : log[i].isdir /\ log[i].descended
    /\ \E i \in 1..Len(log) : ~log[i].isdir /\ ~log[i].descended

\* every leaf of a compact tree that is not a mapping is a tuple
RECURSIVE LeavesAreTuples(_)
LeavesAreTuples(node) ==
    IF node.kind = "dict" THEN \A i \in 1..Len(node.items) : LeavesAreTuples(node.items[i].val)
    ELSE node.kind = "tuple"

\* C7: after FileTree.get_tree() has returned, every leaf that is not a
\* mapping is a tuple, whatever walks were made before, none included
C7_Finalization ==
    (cls = "FileTree" /\ op = "get_tree" /\ ~raised) => LeavesAreTuples(tree)

\* leaves a walk had filled are tuples after get_tree
C7_FilledLeaves ==
    /\ cls = "FileTree" /\ op = "get_tree" /\ ~raised
    /\ nwalks > 0
    /\ tree.items # <<>>
    /\ LeavesAreTuples(tree)

\* C9: on either tree shape, a walk with a callback that returns the node it
\* was given ends without an exception and leaves the tree as it was: the
\* same nodes, the same child names in the same order, the same leaf
\* values; the first such walk and any further one
C9_IdentityWalk ==
    (op = "walk" /\ cb = "identity") => (~raised /\ tree = before)

\* a second walk, the callback the identity, over a directory of two
\* children
C9_WalkedAgain ==
    /\ op = "walk" /\ cb = "identity" /\ ~raised
    /\ nwalks >= 2
    /\ Len(Children(cls, tree)) >= 2
    /\ tree = before

\* path leads to a file leaf of the tree
RECURSIVE IsFileLeafAt(_, _, _)
IsFileLeafAt(cl, node, path) ==
    /\ IsDir(cl, node)
    /\ IF HasSlash(path)
       THEN /\ HasKey(Children(cl, node), SplitHead(path))
            /\ IsFileLeafAt(cl, GetItem(Children(cl, node), SplitHead(path)), SplitRest(path))
       ELSE /\ HasKey(Children(cl, node), path)
            /\ ~IsDir(cl, GetItem(Children(cl, node), path))

\* C10: constructing either tree from non-empty paths ends without an
\* exception, and every path given that does not end in "/" is a file leaf
\* of the tree at that path
C10_BuildPreserves ==
    op = "init" =>
        /\ ~raised
        /\ \A i \in 1..Len(paths) :
              paths[i][Len(paths[i])] # Slash => IsFileLeafAt(cls, tree, paths[i])

\* two files that share a directory are both kept
C10_Siblings ==
    /\ op = "init" /\ ~raised
    /\ Len(paths) = 2
    /\ paths[1] # paths[2]
    /\ \A i \in 1..Len(paths) : IsFileLeafAt(cls, tree, paths[i])

====
